---- MODULE Spec2Model ----
(***************************************************************************)
(* Model of package cookies (cookies.go): parseReturnTo and Compile.       *)
(*                                                                         *)
(* Go strings are TLA+ strings; a byte is a string of length one.          *)
(* A time.Duration is an integer number of nanoseconds.  A time.Time is a  *)
(* record [year, sec] (sec = seconds into the year); the zero time.Time is *)
(* January 1 of year 1, 00:00:00.  An error is the name of its kind, and   *)
(* the nil error is the string "nil".  A *http.Cookie is a sequence: <<>>  *)
(* for the nil pointer, <<c>> for a pointer to the record c.               *)
(***************************************************************************)
EXTENDS Integers, Sequences, FiniteSets, TLC

VARIABLES intent, called, scope, result

vars == <<intent, called, scope, result>>

(***************************************************************************)
(* Bounds of the checked input space.                                      *)
(***************************************************************************)
\* Expires.After ranges over -MaxTicks..MaxTicks half seconds
MaxTicks == 3
\* path patterns have up to MaxSegments directory segments before the last one
MaxSegments == 1

(***************************************************************************)
(* package strings                                                         *)
(***************************************************************************)
byteAt(s, k) == SubSeq(s, k, k)

HasPrefix(s, prefix) ==
    Len(s) >= Len(prefix) /\ SubSeq(s, 1, Len(prefix)) = prefix

HasSuffix(s, suffix) ==
    Len(s) >= Len(suffix) /\ SubSeq(s, Len(s) - Len(suffix) + 1, Len(s)) = suffix

TrimPrefix(s, prefix) ==
    IF HasPrefix(s, prefix) THEN SubSeq(s, Len(prefix) + 1, Len(s)) ELSE s

TrimSuffix(s, suffix) ==
    IF HasSuffix(s, suffix) THEN SubSeq(s, 1, Len(s) - Len(suffix)) ELSE s

\* strings.Index: position (from 1) of the first occurrence of sep, 0 if none
Index(s, sep) ==
    LET hits == {k \in 1..(Len(s) - Len(sep) + 1) :
                    SubSeq(s, k, k + Len(sep) - 1) = sep}
    IN  IF hits = {} THEN 0
        ELSE CHOOSE k \in hits : \A j \in hits : k <= j

\* strings.Cut: split around the first occurrence of sep
Cut(s, sep) ==
    LET k == Index(s, sep)
    IN  IF k = 0
        THEN [before |-> s, after |-> "", found |-> FALSE]
        ELSE [before |-> SubSeq(s, 1, k - 1),
              after  |-> SubSeq(s, k + Len(sep), Len(s)),
              found  |-> TRUE]

(***************************************************************************)
(* Error kinds                                                             *)
(***************************************************************************)
NoErr == "nil"
ErrSyntax == "SyntaxError"
ErrSchema == "SchemaError"
ErrDomainPattern == "DomainPatternError"
ErrPathPattern == "PathPatternError"
ErrConflictingExpiration == "ConflictingExpirationError"
ErrMissingExpiration == "MissingExpirationError"
ErrPrefixConstraint == "PrefixConstraintError"
ErrUnsupportedPolicy == "UnsupportedPolicyError"
ErrInsecureNone == "InsecureNoneError"
ErrInvalidCookie == "DelegatedValidationError"

ScopeErrors == {ErrSyntax, ErrSchema, ErrDomainPattern, ErrPathPattern}

(***************************************************************************)
(* parseReturnTo                                                           *)
(***************************************************************************)
scopeFail(e) == [secure |-> FALSE, domain |-> "", path |-> "", err |-> e]

\* a variant that leaves an empty path prefix empty
normalizePath_Identity(path) == path

\* if path == "" { path = "/" }
normalizePath(path) == IF path = "" THEN "/" ELSE path

parseReturnTo(returnTo) ==
    IF returnTo = "" THEN [secure |-> TRUE, domain |-> "", path |-> "/", err |-> NoErr]
    ELSE
    LET c1 == Cut(returnTo, "://")
        schema == c1.before
        rest == c1.after
    IN
    IF ~c1.found THEN scopeFail(ErrSyntax)
    ELSE IF schema \notin {"https", "https?"} THEN scopeFail(ErrSchema)
    ELSE
    LET secure == (schema = "https")
        c2 == Cut(rest, "/")
        host == c2.before
        path0 == c2.after
    IN
    IF ~c2.found THEN scopeFail(ErrSyntax)
    ELSE IF host # "<current>" /\ ~HasPrefix(host, "**.") THEN scopeFail(ErrDomainPattern)
    ELSE
    LET domain == IF host = "<current>" THEN "" ELSE TrimPrefix(host, "**.")
    IN
    IF host # "<current>" /\ HasPrefix(domain, ".") THEN scopeFail(ErrDomainPattern)
    ELSE IF ~HasSuffix(path0, "**") THEN scopeFail(ErrPathPattern)
    ELSE
    LET path == normalizePath(TrimSuffix(path0, "**"))
    IN  [secure |-> secure, domain |-> domain, path |-> path, err |-> NoErr]

(***************************************************************************)
(* net/http: Cookie.Valid, called by Compile on the assembled cookie       *)
(***************************************************************************)
LowerBytes == {"a","b","c","d","e","f","g","h","i","j","k","l","m",
               "n","o","p","q","r","s","t","u","v","w","x","y","z"}
UpperBytes == {"A","B","C","D","E","F","G","H","I","J","K","L","M",
               "N","O","P","Q","R","S","T","U","V","W","X","Y","Z"}
DigitBytes == {"0","1","2","3","4","5","6","7","8","9"}
LetterBytes == LowerBytes \cup UpperBytes

\* bytes b with 0x20 <= b < 0x7f (the grave accent 0x60 has no TLA+ string
\* literal; strings of the model never contain it)
PrintableBytes ==
    LetterBytes \cup DigitBytes \cup
    {" ","!","\"","#","$","%","&","'","(",")","*","+",",","-",".","/",
     ":",";","<","=",">","?","@","[","\\","]","^","_","{","|","}","~"}

\* RFC 7230 token bytes
TokenBytes ==
    LetterBytes \cup DigitBytes \cup
    {"!","#","$","%","&","'","*","+","-",".","^","_","|","~"}

allBytesIn(s, set) == \A k \in 1..Len(s) : byteAt(s, k) \in set

isCookieNameValid(name) == name # "" /\ allBytesIn(name, TokenBytes)

validCookieValueByte(b) == b \in PrintableBytes \ {"\"", ";", "\\"}

validCookiePathByte(b) == b \in PrintableBytes \ {";"}

\* time.Time
ZeroTime == [year |-> 1, sec |-> 0]
IsZero(t) == t = ZeroTime

validCookieExpires(t) == t.year >= 1601

\* the scanning loop of isCookieDomainName from byte k on
RECURSIVE domainScan(_, _, _, _, _)
domainScan(s, k, last, ok, partlen) ==
    IF k > Len(s) THEN last # "-" /\ partlen <= 63 /\ ok
    ELSE
    LET c == byteAt(s, k) IN
    IF c \in LetterBytes THEN domainScan(s, k + 1, c, TRUE, partlen + 1)
    ELSE IF c \in DigitBytes THEN domainScan(s, k + 1, c, ok, partlen + 1)
    ELSE IF c = "-" THEN last # "." /\ domainScan(s, k + 1, c, ok, partlen + 1)
    ELSE IF c = "." THEN
        /\ last # "." /\ last # "-"
        /\ partlen <= 63 /\ partlen # 0
        /\ domainScan(s, k + 1, c, ok, 0)
    ELSE FALSE

isCookieDomainName(s) ==
    /\ Len(s) # 0
    /\ Len(s) <= 255
    /\ domainScan(IF byteAt(s, 1) = "." THEN SubSeq(s, 2, Len(s)) ELSE s,
                  1, ".", FALSE, 0)

digitVal(b) == CHOOSE n \in 0..9 : byteAt("0123456789", n + 1) = b

RECURSIVE decimal(_)
decimal(f) ==
    IF f = "" THEN 0
    ELSE 10 * decimal(SubSeq(f, 1, Len(f) - 1)) + digitVal(byteAt(f, Len(f)))

ipv4Field(f) ==
    /\ Len(f) \in 1..3
    /\ allBytesIn(f, DigitBytes)
    /\ (Len(f) > 1 => byteAt(f, 1) # "0")
    /\ decimal(f) <= 255

\* s is made of exactly n dot-separated IPv4 fields
RECURSIVE ipv4Fields(_, _)
ipv4Fields(s, n) ==
    LET c == Cut(s, ".") IN
    IF n = 1 THEN ~c.found /\ ipv4Field(s)
    ELSE c.found /\ ipv4Field(c.before) /\ ipv4Fields(c.after, n - 1)

\* net.ParseIP(v) != nil && !strings.Contains(v, ":")
isIPv4(v) == ipv4Fields(v, 4)

validCookieDomain(v) == isCookieDomainName(v) \/ isIPv4(v)

Valid(c) ==
    /\ isCookieNameValid(c.Name)
    /\ (~IsZero(c.Expires) => validCookieExpires(c.Expires))
    /\ \A k \in 1..Len(c.Value) : validCookieValueByte(byteAt(c.Value, k))
    /\ \A k \in 1..Len(c.Path) : validCookiePathByte(byteAt(c.Path, k))
    /\ (Len(c.Domain) > 0 => validCookieDomain(c.Domain))

(***************************************************************************)
(* Source, Expiration, Intent                                              *)
(***************************************************************************)
SameSite == "A->A"
SameSiteOrAnySiteByUser == "A->A,*-(user)->A"
AnySite == "*->A"

\* http.SameSite modes
SameSiteStrictMode == "Strict"
SameSiteLaxMode == "Lax"
SameSiteNoneMode == "None"

\* time.Second, in nanoseconds
Second == 1000000000

WhenUAIsClosed == [Session |-> TRUE, At |-> ZeroTime, After |-> 0]
At(t) == [Session |-> FALSE, At |-> t, After |-> 0]
After(d) == [Session |-> FALSE, At |-> ZeroTime, After |-> d]
Immediately == [Session |-> FALSE, At |-> ZeroTime, After |-> -Second]

\* int(d.Seconds()): the quotient by time.Second, truncated toward zero
Seconds(d) == IF d >= 0 THEN d \div Second ELSE -((-d) \div Second)

(***************************************************************************)
(* Compile                                                                 *)
(***************************************************************************)
fail(e) == [cookie |-> <<>>, err |-> e]

\* i.Expires.After != 0 && !i.Expires.At.IsZero()
conflictingExpiration(e) == e.After # 0 /\ ~IsZero(e.At)

\* a variant without the default case of the expiration switch
missingExpiration_NoDefault(e) == FALSE

\* the default case of the expiration switch
missingExpiration(e) == IsZero(e.At) /\ e.After = 0 /\ ~e.Session

\* expires, as left by the expiration switch
resolveExpires(e) == IF ~IsZero(e.At) THEN e.At ELSE ZeroTime

\* maxAge, as left by the expiration switch
resolveMaxAge(e) ==
    IF IsZero(e.At) /\ e.After # 0 THEN Seconds(e.After) ELSE 0

securePrefixViolated(name, p) == HasPrefix(name, "__Secure-") /\ ~p.secure

\* a variant that does not look at the path
hostPrefixViolated_NoPath(name, p) ==
    HasPrefix(name, "__Host-") /\ (~p.secure \/ p.domain # "")

hostPrefixViolated(name, p) ==
    HasPrefix(name, "__Host-") /\ (~p.secure \/ p.domain # "" \/ p.path # "/")

Unsupported == "unsupported"

\* a variant whose default case falls back to Lax
sameSiteOf_DefaultLax(source) ==
    IF source = SameSite THEN SameSiteStrictMode
    ELSE IF source = AnySite THEN SameSiteNoneMode
    ELSE SameSiteLaxMode

\* the switch on i.ReturnOnNavigationFrom; Unsupported is its default case
sameSiteOf(source) ==
    IF source = SameSite THEN SameSiteStrictMode
    ELSE IF source \in {SameSiteOrAnySiteByUser, ""} THEN SameSiteLaxMode
    ELSE IF source = AnySite THEN SameSiteNoneMode
    ELSE Unsupported

\* a variant with the test on secure inverted
insecureNone_Inverted(secure, sameSite) == secure /\ sameSite = SameSiteNoneMode

insecureNone(secure, sameSite) == ~secure /\ sameSite = SameSiteNoneMode

\* Compile from the call of parseReturnTo on
compileScoped(i) ==
    LET p == parseReturnTo(i.ReturnTo) IN
    IF p.err # NoErr THEN fail(p.err)
    ELSE IF missingExpiration(i.Expires) THEN fail(ErrMissingExpiration)
    ELSE IF securePrefixViolated(i.Name, p) THEN fail(ErrPrefixConstraint)
    ELSE IF hostPrefixViolated(i.Name, p) THEN fail(ErrPrefixConstraint)
    ELSE
    LET sameSite == sameSiteOf(i.ReturnOnNavigationFrom) IN
    IF sameSite = Unsupported THEN fail(ErrUnsupportedPolicy)
    ELSE IF insecureNone(p.secure, sameSite) THEN fail(ErrInsecureNone)
    ELSE
    LET cookie == [Name     |-> i.Name,
                   Value    |-> i.Value,
                   Domain   |-> p.domain,
                   Path     |-> p.path,
                   Expires  |-> resolveExpires(i.Expires),
                   MaxAge   |-> resolveMaxAge(i.Expires),
                   Secure   |-> p.secure,
                   HttpOnly |-> ~i.RevealToJavaScript,
                   SameSite |-> sameSite]
    IN
    IF ~Valid(cookie) THEN fail(ErrInvalidCookie)
    ELSE [cookie |-> <<cookie>>, err |-> NoErr]

\* a variant that parses ReturnTo before it checks the expiration fields
Compile_ScopeFirst(i) ==
    IF parseReturnTo(i.ReturnTo).err # NoErr THEN fail(parseReturnTo(i.ReturnTo).err)
    ELSE IF conflictingExpiration(i.Expires) THEN fail(ErrConflictingExpiration)
    ELSE compileScoped(i)

Compile(i) ==
    IF conflictingExpiration(i.Expires) THEN fail(ErrConflictingExpiration)
    ELSE compileScoped(i)

(***************************************************************************)
(* Inputs                                                                  *)
(***************************************************************************)
RECURSIVE Rep(_, _)
Rep(s, n) == IF n = 0 THEN "" ELSE s \o Rep(s, n - 1)

Names == {"test", "__Host-ID", "__Secure-test", "bad name", ""}

Values == {"value", "a;b"}

testTime == [year |-> 2020, sec |-> 0]
Times == {ZeroTime, testTime, [year |-> 1600, sec |-> 0]}

\* half a second, in nanoseconds
Tick == Second \div 2
Durations == {k * Tick : k \in (-MaxTicks)..MaxTicks}

Expirations == [Session : BOOLEAN, At : Times, After : Durations]

Schemas == {"https", "https?"}
Hosts == {"<current>", "**.example.com", "example.com", "**..example.com",
          "**.", "**.a..b", "**.a."}
Paths == {"/" \o Rep("foo/", k) \o t :
             k \in 0..MaxSegments, t \in {"**", "foo**", "foo"}}

DefaultReturnTo == "https://<current>/**"

ReturnTos ==
    {""} \cup
    {s \o "://" \o h \o p : s \in Schemas, h \in Hosts, p \in Paths} \cup
    {"http:/**.example.com/**", "http://**.example.com/**",
     "https://example.com", "https://**.example.com.**/**"}

Sources == {"", SameSite, SameSiteOrAnySiteByUser, AnySite, "invalid"}

Intents == [Name : Names,
            Value : Values,
            Expires : Expirations,
            ReturnTo : ReturnTos,
            ReturnOnNavigationFrom : Sources,
            RevealToJavaScript : BOOLEAN]

(***************************************************************************)
(* One run: an Intent is given, and either parseReturnTo is applied to its *)
(* ReturnTo or Compile is applied to the Intent.                           *)
(***************************************************************************)
NotCalled == "not called"

Init ==
    /\ intent \in Intents
    /\ called = "none"
    /\ scope = scopeFail(NotCalled)
    /\ result = fail(NotCalled)

CallParseReturnTo ==
    /\ called = "none"
    /\ scope' = parseReturnTo(intent.ReturnTo)
    /\ called' = "parseReturnTo"
    /\ UNCHANGED <<intent, result>>

CallCompile ==
    /\ called = "none"
    /\ result' = Compile(intent)
    /\ called' = "Compile"
    /\ UNCHANGED <<intent, scope>>

Next == CallParseReturnTo \/ CallCompile

Spec == Init /\ [][Next]_vars

TypeOK ==
    /\ intent \in Intents
    /\ called \in {"none", "parseReturnTo", "Compile"}
    /\ scope.err \in ScopeErrors \cup {NoErr, NotCalled}
    /\ Len(result.cookie) \in {0, 1}

(***************************************************************************)
(* Properties                                                              *)
(***************************************************************************)
Parsed == called = "parseReturnTo"
Accepted == Parsed /\ scope.err = NoErr
Compiled == called = "Compile"
Returned == Compiled /\ result.cookie # <<>>
TheCookie == result.cookie[1]

\* the host segment of a ReturnTo pattern
hostSegment(returnTo) == Cut(Cut(returnTo, "://").after, "/").before

\* one or more non-empty labels separated by single dots
isLabelSequence(d) ==
    /\ d # ""
    /\ ~HasPrefix(d, ".")
    /\ ~HasSuffix(d, ".")
    /\ Index(d, "..") = 0

\* C1: a returned cookie whose name starts with __Host- is Secure, has no
\* Domain and has Path "/"; one whose name starts with __Secure- is Secure.
C1_NamePrefixGuarantee ==
    Returned =>
        /\ HasPrefix(TheCookie.Name, "__Host-") =>
               TheCookie.Secure /\ TheCookie.Domain = "" /\ TheCookie.Path = "/"
        /\ HasPrefix(TheCookie.Name, "__Secure-") => TheCookie.Secure

C1_Witness ==
    /\ Returned
    /\ HasPrefix(TheCookie.Name, "__Host-")
    /\ intent.ReturnTo = DefaultReturnTo

\* C2: no returned cookie has SameSite None without Secure; AnySite with an
\* "https?" ReturnTo always fails; AnySite with an "https" or empty ReturnTo
\* of an intent that compiles under the default policy succeeds with
\* SameSite None and Secure.
C2_NoneImpliesSecure ==
    /\ Returned => ~(TheCookie.SameSite = SameSiteNoneMode /\ ~TheCookie.Secure)
    /\ (Compiled /\ intent.ReturnOnNavigationFrom = AnySite
                 /\ HasPrefix(intent.ReturnTo, "https?://"))
           => result.err # NoErr /\ result.cookie = <<>>
    /\ (Compiled /\ intent.ReturnOnNavigationFrom = AnySite
                 /\ (intent.ReturnTo = "" \/ HasPrefix(intent.ReturnTo, "https://"))
                 /\ Compile([intent EXCEPT !.ReturnOnNavigationFrom = ""]).err = NoErr)
           => /\ Returned
              /\ TheCookie.SameSite = SameSiteNoneMode
              /\ TheCookie.Secure

C2_Witness ==
    /\ Returned
    /\ intent.ReturnOnNavigationFrom = AnySite
    /\ HasPrefix(intent.ReturnTo, "https://")
    /\ TheCookie.SameSite = SameSiteNoneMode

\* C3: the path prefix of every accepted ReturnTo, and the Path of every
\* returned cookie, begins with "/".
C3_PathPrefixBeginsWithSlash ==
    /\ Accepted => HasPrefix(scope.path, "/")
    /\ Returned => HasPrefix(TheCookie.Path, "/")

\* C4: a returned cookie never has both Expires and MaxAge set, and has
\* neither only if the intent was session-scoped.
C4_ExpiryRepresentation ==
    Returned =>
        /\ ~(~IsZero(TheCookie.Expires) /\ TheCookie.MaxAge # 0)
        /\ (IsZero(TheCookie.Expires) /\ TheCookie.MaxAge = 0)
               => intent.Expires.Session

\* the intent compiles once its expiration is replaced by WhenUAIsClosed
OtherwiseValid == Compile([intent EXCEPT !.Expires = WhenUAIsClosed]).err = NoErr

\* C5 (as claimed): an otherwise valid intent with Expires = After(0)
\* compiles to a cookie with max-age zero.
C5_ZeroDurationCompiles ==
    (Compiled /\ intent.Expires = After(0) /\ OtherwiseValid)
        => Returned /\ TheCookie.MaxAge = 0

\* C5 (amended): an otherwise valid intent with Expires = After(0) fails
\* with the missing-expiration error and returns no cookie.
C5_ZeroDurationIsMissing ==
    (Compiled /\ intent.Expires = After(0) /\ OtherwiseValid)
        => result.err = ErrMissingExpiration /\ result.cookie = <<>>

C5_Witness ==
    /\ Compiled
    /\ intent.Expires = After(0)
    /\ OtherwiseValid
    /\ result.err = ErrMissingExpiration

\* C6: a valid intent with default ReturnTo and policy and Expires =
\* Immediately() compiles to MaxAge 0, no Expires, Path "/", Secure,
\* HttpOnly, SameSite Lax.
C6_ImmediateExpiration ==
    (/\ Compiled
     /\ intent.Expires = Immediately
     /\ intent.Name \in {"test", "__Host-ID", "__Secure-test"}
     /\ intent.Value = "value"
     /\ intent.ReturnTo = ""
     /\ intent.ReturnOnNavigationFrom = ""
     /\ ~intent.RevealToJavaScript)
        => /\ Returned
           /\ TheCookie.MaxAge = 0
           /\ IsZero(TheCookie.Expires)
           /\ TheCookie.Path = "/"
           /\ TheCookie.Secure
           /\ TheCookie.HttpOnly
           /\ TheCookie.SameSite = SameSiteLaxMode

\* C7: the domain suffix of every accepted ReturnTo is empty or a sequence
\* of non-empty labels separated by single dots, and the host segment of an
\* accepted non-empty ReturnTo is "<current>" or "**." before such a
\* sequence.
C7_DomainSuffixInvariant ==
    Accepted =>
        /\ scope.domain = "" \/ isLabelSequence(scope.domain)
        /\ intent.ReturnTo # "" =>
               \/ hostSegment(intent.ReturnTo) = "<current>"
               \/ /\ HasPrefix(hostSegment(intent.ReturnTo), "**.")
                  /\ isLabelSequence(TrimPrefix(hostSegment(intent.ReturnTo), "**."))

\* C8: an empty ReturnTo resolves to (secure, no domain, path "/") and
\* behaves as the pattern "https://<current>/**", in parseReturnTo and in
\* Compile.
C8_DefaultScopeEquivalence ==
    /\ (Parsed /\ intent.ReturnTo = "")
           => /\ scope = [secure |-> TRUE, domain |-> "", path |-> "/", err |-> NoErr]
              /\ scope = parseReturnTo(DefaultReturnTo)
    /\ (Compiled /\ intent.ReturnTo = "")
           => /\ result = Compile([intent EXCEPT !.ReturnTo = DefaultReturnTo])
              /\ Returned =>
                     TheCookie.Secure /\ TheCookie.Domain = "" /\ TheCookie.Path = "/"

C8_Witness == Returned /\ intent.ReturnTo = ""

\* C9: a returned cookie is Strict exactly for SameSite, Lax exactly for
\* SameSiteOrAnySiteByUser or the empty Source, None exactly for AnySite;
\* any other Source gives an error and no cookie.
C9_NavigationMapping ==
    /\ Returned =>
        /\ TheCookie.SameSite = SameSiteStrictMode
               <=> intent.ReturnOnNavigationFrom = SameSite
        /\ TheCookie.SameSite = SameSiteLaxMode
               <=> intent.ReturnOnNavigationFrom \in {SameSiteOrAnySiteByUser, ""}
        /\ TheCookie.SameSite = SameSiteNoneMode
               <=> intent.ReturnOnNavigationFrom = AnySite
    /\ (Compiled /\ intent.ReturnOnNavigationFrom
                       \notin {SameSite, SameSiteOrAnySiteByUser, "", AnySite})
           => result.err # NoErr /\ result.cookie = <<>>

C9_Witness ==
    /\ Returned
    /\ intent.ReturnOnNavigationFrom = SameSite
    /\ TheCookie.SameSite = SameSiteStrictMode

\* the steps of Compile that the intent violates, stated on the intent
Violates1 == intent.Expires.After # 0 /\ intent.Expires.At # ZeroTime
Violates2 == parseReturnTo(intent.ReturnTo).err # NoErr
Violates3 ==
    intent.Expires.At = ZeroTime /\ intent.Expires.After = 0 /\ ~intent.Expires.Session
Violates4 ==
    LET p == parseReturnTo(intent.ReturnTo) IN
    \/ HasPrefix(intent.Name, "__Secure-") /\ ~p.secure
    \/ HasPrefix(intent.Name, "__Host-") /\ ~(p.secure /\ p.domain = "" /\ p.path = "/")
Violates5 ==
    intent.ReturnOnNavigationFrom \notin {SameSite, SameSiteOrAnySiteByUser, "", AnySite}
Violates6 ==
    intent.ReturnOnNavigationFrom = AnySite /\ ~parseReturnTo(intent.ReturnTo).secure

\* C10: the error of Compile is the one of the earliest violated step, in
\* the order conflicting expiration, scope, missing expiration, name
\* prefix, unsupported policy, insecure None, cookie validity; with an
\* error the cookie is nil.
C10_FailureOrdering ==
    Compiled =>
        /\ Violates1 => result.err = ErrConflictingExpiration
        /\ (~Violates1 /\ Violates2) =>
               result.err = parseReturnTo(intent.ReturnTo).err /\ result.err \in ScopeErrors
        /\ (~Violates1 /\ ~Violates2 /\ Violates3) => result.err = ErrMissingExpiration
        /\ (~Violates1 /\ ~Violates2 /\ ~Violates3 /\ Violates4) =>
               result.err = ErrPrefixConstraint
        /\ (~Violates1 /\ ~Violates2 /\ ~Violates3 /\ ~Violates4 /\ Violates5) =>
               result.err = ErrUnsupportedPolicy
        /\ (~Violates1 /\ ~Violates2 /\ ~Violates3 /\ ~Violates4 /\ ~Violates5
                /\ Violates6) => result.err = ErrInsecureNone
        /\ (~Violates1 /\ ~Violates2 /\ ~Violates3 /\ ~Violates4 /\ ~Violates5
                /\ ~Violates6) => result.err \in {NoErr, ErrInvalidCookie}
        /\ result.err # NoErr <=> result.cookie = <<>>

C10_Witness ==
    /\ Compiled
    /\ Violates1
    /\ Violates2
    /\ Violates5
    /\ result.err = ErrConflictingExpiration
    /\ result.cookie = <<>>

====
